---- MODULE Spec2Model ----
(***************************************************************************)
(* Model of the Markov chain library (package markov, chain.go).           *)
(*                                                                         *)
(* A Chain owns two Go maps: transitions (state -> (state -> int64)) and   *)
(* totals (state -> int64).  Go maps are modelled as TLA+ functions whose  *)
(* DOMAIN is the key set.  Every exported method is one action; the pure   *)
(* effect of a method on a chain is an operator named Do<Method>, so that  *)
(* RemoveState can call RemoveTransition exactly as the code does.         *)
(*                                                                         *)
(* Three specifications share the definitions: Spec calls the methods on   *)
(* a chain made by CreateNew, SpecJSON also loads chains with FromJSON,    *)
(* and SpecRace interleaves the steps of two unsynchronised mutating calls.*)
(*                                                                         *)
(* Weights stay far below the int64 limits in this model: the arithmetic   *)
(* of totals is exact, wrap-around at 2^63 is not explored.                *)
(***************************************************************************)
EXTENDS Integers, FiniteSets, Sequences, TLC

\* ---------------------------------------------------------------- bounds
\* Names the callers may pass as state arguments.
States == {"s0", "s1"}

\* Weight arguments range over -1 .. MaxWeight: a negative weight, zero, and
\* the positive weights up to MaxWeight.
MaxWeight == 1

\* rand.Float64() is drawn from { d / DrawDen : d \in 0 .. DrawDen-1 }.
DrawDen == 2

Weights == (0 - 1) .. MaxWeight
Draws == 0 .. (DrawDen - 1)

\* ---------------------------------------------------------------- errors
\* The kinds of the error values the methods build with fmt.Errorf/errors.New.
Nil == "nil"
NotFound == "NotFound"
AlreadyExists == "AlreadyExists"
InvalidWeight == "InvalidWeight"

\* The error json.Unmarshal returns (a SyntaxError or an UnmarshalTypeError).
ParseError == "ParseError"

\* Not an error value: the call panicked ("assignment to entry in nil map").
Panic == "panic"

\* The empty string Transit returns for "no next state".
Empty == ""

\* Placeholder for an argument or result a call does not have.
None == "none"

\* transitions, totals: the contents of the chain's two maps (a nil map reads
\* as an empty one); nilmaps: which of the maps are nil; last: the last call.
\* calls: the mutating calls that goroutines are in the middle of.
VARIABLES transitions, totals, nilmaps, last, calls

vars == <<transitions, totals, nilmaps, last, calls>>

\* ---------------------------------------------------------------- Go maps
EmptyMap == [k \in {} |-> 0]

\* m[k] = v
MapSet(m, k, v) == [x \in (DOMAIN m) \cup {k} |-> IF x = k THEN v ELSE m[x]]

\* delete(m, k)
MapDelete(m, k) == [x \in (DOMAIN m) \ {k} |-> m[x]]

\* m[k] read as an int64 value: the zero value when k is absent.
MapGet(m, k) == IF k \in DOMAIN m THEN m[k] ELSE 0

\* _, ok := m[k]
MapHas(m, k) == k \in DOMAIN m

\* _, ok := chain.transitions[o][i] : indexing a missing inner map reads nil,
\* and a lookup in a nil map yields ok = false.
EdgeHas(tr, o, i) == MapHas(tr, o) /\ MapHas(tr[o], i)

\* ---------------------------------------------------------------- Chain
Chain(tr, tot) == [transitions |-> tr, totals |-> tot]

CreateNew == Chain(EmptyMap, EmptyMap)

Result(c, e) == [chain |-> c, err |-> e]

\* All orders in which a range loop may visit the key set S.
Orders(S) == {q \in [1 .. Cardinality(S) -> S] : \A k \in S : \E i \in DOMAIN q : q[i] = k}

RECURSIVE SumOver(_, _)
SumOver(m, S) ==
    IF S = {} THEN 0
    ELSE LET k == CHOOSE x \in S : TRUE IN m[k] + SumOver(m, S \ {k})

\* Sum of the weights stored in one inner map.
SumWeights(m) == SumOver(m, DOMAIN m)

\* ---------------------------------------------------------------- methods
DoAddState(c, state) ==
    IF MapHas(c.transitions, state)
    THEN Result(c, AlreadyExists)
    ELSE Result(Chain(MapSet(c.transitions, state, EmptyMap),
                      MapSet(c.totals, state, 0)), Nil)

\* Mutant: the edge and the total are written before the weight is validated.
DoAddTransition_StoreFirst(c, outgoing, incoming, weight) ==
    IF ~MapHas(c.transitions, outgoing) THEN Result(c, NotFound)
    ELSE IF ~MapHas(c.transitions, incoming) THEN Result(c, NotFound)
    ELSE IF EdgeHas(c.transitions, outgoing, incoming) THEN Result(c, AlreadyExists)
    ELSE LET c1 == Chain(MapSet(c.transitions, outgoing,
                                MapSet(c.transitions[outgoing], incoming, weight)),
                         MapSet(c.totals, outgoing, MapGet(c.totals, outgoing) + weight))
         IN IF weight <= 0 THEN Result(c1, InvalidWeight) ELSE Result(c1, Nil)

\* Mutant: the weight test is "weight < 0", so a zero weight is accepted.
DoAddTransition_AllowZero(c, outgoing, incoming, weight) ==
    IF ~MapHas(c.transitions, outgoing) THEN Result(c, NotFound)
    ELSE IF ~MapHas(c.transitions, incoming) THEN Result(c, NotFound)
    ELSE IF EdgeHas(c.transitions, outgoing, incoming) THEN Result(c, AlreadyExists)
    ELSE IF weight < 0 THEN Result(c, InvalidWeight)
    ELSE Result(Chain(MapSet(c.transitions, outgoing,
                             MapSet(c.transitions[outgoing], incoming, weight)),
                      MapSet(c.totals, outgoing, MapGet(c.totals, outgoing) + weight)),
                Nil)

\* Mutant: the total is assigned the new weight instead of being raised by it.
DoAddTransition_SetTotal(c, outgoing, incoming, weight) ==
    IF ~MapHas(c.transitions, outgoing) THEN Result(c, NotFound)
    ELSE IF ~MapHas(c.transitions, incoming) THEN Result(c, NotFound)
    ELSE IF EdgeHas(c.transitions, outgoing, incoming) THEN Result(c, AlreadyExists)
    ELSE IF weight <= 0 THEN Result(c, InvalidWeight)
    ELSE Result(Chain(MapSet(c.transitions, outgoing,
                             MapSet(c.transitions[outgoing], incoming, weight)),
                      MapSet(c.totals, outgoing, weight)),
                Nil)

DoAddTransition(c, outgoing, incoming, weight) ==
    IF ~MapHas(c.transitions, outgoing) THEN Result(c, NotFound)
    ELSE IF ~MapHas(c.transitions, incoming) THEN Result(c, NotFound)
    ELSE IF EdgeHas(c.transitions, outgoing, incoming) THEN Result(c, AlreadyExists)
    ELSE IF weight <= 0 THEN Result(c, InvalidWeight)
    ELSE Result(Chain(MapSet(c.transitions, outgoing,
                             MapSet(c.transitions[outgoing], incoming, weight)),
                      MapSet(c.totals, outgoing, MapGet(c.totals, outgoing) + weight)),
                Nil)

\* Mutant: the update validates the weight the way AddTransition does.
DoUpdateTransition_RejectNonPositive(c, outgoing, incoming, weight) ==
    IF ~MapHas(c.transitions, outgoing) THEN Result(c, NotFound)
    ELSE IF ~MapHas(c.transitions, incoming) THEN Result(c, NotFound)
    ELSE IF ~EdgeHas(c.transitions, outgoing, incoming) THEN Result(c, NotFound)
    ELSE IF weight <= 0 THEN Result(c, InvalidWeight)
    ELSE LET oldWeight == c.transitions[outgoing][incoming]
         IN Result(Chain(MapSet(c.transitions, outgoing,
                                MapSet(c.transitions[outgoing], incoming, weight)),
                         MapSet(c.totals, outgoing,
                                MapGet(c.totals, outgoing) - oldWeight + weight)),
                   Nil)

DoUpdateTransition(c, outgoing, incoming, weight) ==
    IF ~MapHas(c.transitions, outgoing) THEN Result(c, NotFound)
    ELSE IF ~MapHas(c.transitions, incoming) THEN Result(c, NotFound)
    ELSE IF ~EdgeHas(c.transitions, outgoing, incoming) THEN Result(c, NotFound)
    ELSE LET oldWeight == c.transitions[outgoing][incoming]
             tot1 == MapSet(c.totals, outgoing, MapGet(c.totals, outgoing) - oldWeight)
             tr1 == MapSet(c.transitions, outgoing,
                           MapSet(c.transitions[outgoing], incoming, weight))
             tot2 == MapSet(tot1, outgoing, MapGet(tot1, outgoing) + weight)
         IN Result(Chain(tr1, tot2), Nil)

\* Mutant: the edge is deleted but its weight stays in the total.
DoRemoveTransition_KeepTotal(c, outgoing, incoming) ==
    IF ~MapHas(c.transitions, outgoing) THEN Result(c, NotFound)
    ELSE IF ~MapHas(c.transitions, incoming) THEN Result(c, NotFound)
    ELSE IF ~EdgeHas(c.transitions, outgoing, incoming) THEN Result(c, NotFound)
    ELSE Result(Chain(MapSet(c.transitions, outgoing,
                             MapDelete(c.transitions[outgoing], incoming)),
                      c.totals),
                Nil)

DoRemoveTransition(c, outgoing, incoming) ==
    IF ~MapHas(c.transitions, outgoing) THEN Result(c, NotFound)
    ELSE IF ~MapHas(c.transitions, incoming) THEN Result(c, NotFound)
    ELSE IF ~EdgeHas(c.transitions, outgoing, incoming) THEN Result(c, NotFound)
    ELSE Result(Chain(MapSet(c.transitions, outgoing,
                             MapDelete(c.transitions[outgoing], incoming)),
                      MapSet(c.totals, outgoing,
                             MapGet(c.totals, outgoing)
                                 - c.transitions[outgoing][incoming])),
                Nil)

\* The loop of RemoveState: RemoveTransition(key, state) for the keys in the
\* order the range loop visits them; the error each call returns is dropped.
RECURSIVE RemoveIncoming(_, _, _, _)
RemoveIncoming(c, order, i, state) ==
    IF i > Len(order) THEN c
    ELSE RemoveIncoming(DoRemoveTransition(c, order[i], state).chain, order, i + 1, state)

\* Mutant: the state's entry in totals is not deleted.
DoRemoveState_KeepTotals(c, order, state) ==
    IF ~MapHas(c.transitions, state) THEN Result(c, NotFound)
    ELSE LET c1 == RemoveIncoming(c, order, 1, state)
         IN Result(Chain(MapDelete(c1.transitions, state), c1.totals), Nil)

\* Mutant: the other states' transitions are not scanned.
DoRemoveState_NoScan(c, order, state) ==
    IF ~MapHas(c.transitions, state) THEN Result(c, NotFound)
    ELSE Result(Chain(MapDelete(c.transitions, state),
                      MapDelete(c.totals, state)), Nil)

\* Mutant: the loop calls RemoveTransition(state, key), the arguments swapped.
RECURSIVE RemoveOutgoing(_, _, _, _)
RemoveOutgoing(c, order, i, state) ==
    IF i > Len(order) THEN c
    ELSE RemoveOutgoing(DoRemoveTransition(c, state, order[i]).chain, order, i + 1, state)

DoRemoveState_SwappedArgs(c, order, state) ==
    IF ~MapHas(c.transitions, state) THEN Result(c, NotFound)
    ELSE LET c1 == RemoveOutgoing(c, order, 1, state)
         IN Result(Chain(MapDelete(c1.transitions, state),
                         MapDelete(c1.totals, state)), Nil)

\* Mutant: a state that had an edge to the removed state loses all its edges.
DoRemoveState_DropsSources(c, order, state) ==
    IF ~MapHas(c.transitions, state) THEN Result(c, NotFound)
    ELSE LET keep == DOMAIN c.transitions \ {state}
         IN Result(Chain([t \in keep |-> IF MapHas(c.transitions[t], state)
                                         THEN EmptyMap ELSE c.transitions[t]],
                         [t \in keep |-> IF MapHas(c.transitions[t], state)
                                         THEN 0 ELSE MapGet(c.totals, t)]),
                   Nil)

DoRemoveState(c, order, state) ==
    IF ~MapHas(c.transitions, state) THEN Result(c, NotFound)
    ELSE LET c1 == RemoveIncoming(c, order, 1, state)
         IN Result(Chain(MapDelete(c1.transitions, state),
                         MapDelete(c1.totals, state)), Nil)

\* ---------------------------------------------------------------- queries
QResult(c, e, res) == [chain |-> c, err |-> e, res |-> res]

DoHasState(c, state) == QResult(c, Nil, MapHas(c.transitions, state))

\* The slice holds the keys of totals in the order the range loop visits them.
DoGetAllStates(c, order) == QResult(c, Nil, order)

DoHasTransition(c, outgoing, incoming) ==
    LET outgoingExists == MapHas(c.transitions, outgoing)
        incomingExists == MapHas(c.transitions, incoming)
    IN IF outgoingExists /\ incomingExists
       THEN QResult(c, Nil, MapHas(c.transitions[outgoing], incoming))
       ELSE QResult(c, Nil, FALSE)

DoGetTransitionWeight(c, outgoing, incoming) ==
    IF ~MapHas(c.transitions, outgoing) THEN QResult(c, NotFound, 0)
    ELSE IF ~MapHas(c.transitions, incoming) THEN QResult(c, NotFound, 0)
    ELSE IF ~EdgeHas(c.transitions, outgoing, incoming) THEN QResult(c, NotFound, 0)
    ELSE QResult(c, Nil, c.transitions[outgoing][incoming])

\* Mutant: looking up a missing state leaves an empty entry for it behind.
DoGetTransitionWeights_Autovivify(c, state) ==
    IF ~MapHas(c.transitions, state)
    THEN QResult(Chain(MapSet(c.transitions, state, EmptyMap), c.totals), NotFound, None)
    ELSE QResult(c, Nil, [key \in DOMAIN c.transitions[state] |-> c.transitions[state][key]])

DoGetTransitionWeights(c, state) ==
    IF ~MapHas(c.transitions, state) THEN QResult(c, NotFound, None)
    ELSE QResult(c, Nil, [key \in DOMAIN c.transitions[state] |-> c.transitions[state][key]])

\* A float64 is kept as the quotient num / den it was computed from.  den = 0
\* is what IEEE division by zero yields: +Inf (num > 0), -Inf (num < 0) or
\* NaN (num = 0).  Rounding of the quotient is not modelled.
Float(n, d) == [num |-> n, den |-> d]

FloatZero == Float(0, 1)

FloatIsNaN(x) == x.num = 0 /\ x.den = 0

\* x * (d / DrawDen); Inf * 0 and NaN * anything come out as NaN.
FloatMulDraw(x, d) == Float(x.num * d, x.den * DrawDen)

FloatNorm(x) == IF x.den < 0 THEN Float(0 - x.num, 0 - x.den) ELSE x

\* x > y on float64: false whenever either side is NaN.
FloatGT(x, y) ==
    /\ ~FloatIsNaN(x)
    /\ ~FloatIsNaN(y)
    /\ LET a == FloatNorm(x)
           b == FloatNorm(y)
       IN IF a.den = 0 /\ b.den = 0 THEN a.num > 0 /\ b.num < 0
          ELSE IF a.den = 0 THEN a.num > 0
          ELSE IF b.den = 0 THEN b.num < 0
          ELSE a.num * b.den > b.num * a.den

DoGetTransitionProbability(c, outgoing, incoming) ==
    IF ~MapHas(c.transitions, outgoing) THEN QResult(c, NotFound, FloatZero)
    ELSE IF ~MapHas(c.transitions, incoming) THEN QResult(c, NotFound, FloatZero)
    ELSE IF ~EdgeHas(c.transitions, outgoing, incoming) THEN QResult(c, NotFound, FloatZero)
    ELSE QResult(c, Nil, Float(c.transitions[outgoing][incoming],
                               MapGet(c.totals, outgoing)))

DoGetTransitionProbabilities(c, state) ==
    IF ~MapHas(c.transitions, state) THEN QResult(c, NotFound, None)
    ELSE QResult(c, Nil, [key \in DOMAIN c.transitions[state] |->
                             Float(c.transitions[state][key], MapGet(c.totals, state))])

\* The loop of Transit over the keys of probabilities in the order the range
\* loop visits them; draw[i] is the value rand.Float64() returns in the i-th
\* iteration (as a multiple of 1 / DrawDen).
RECURSIVE TransitLoop(_, _, _, _, _, _)
TransitLoop(probabilities, order, draw, i, max, next) ==
    IF i > Len(order) THEN next
    ELSE LET key == order[i]
             temp == FloatMulDraw(probabilities[key], draw[i])
         IN IF FloatGT(temp, max)
            THEN TransitLoop(probabilities, order, draw, i + 1, temp, key)
            ELSE TransitLoop(probabilities, order, draw, i + 1, max, next)

\* Mutant: next starts as the current state instead of the empty string.
DoTransit_StartsAtState(c, order, draw, state) ==
    IF ~MapHas(c.transitions, state) THEN QResult(c, NotFound, Empty)
    ELSE LET p == DoGetTransitionProbabilities(c, state)
         IN IF p.err # Nil THEN QResult(p.chain, p.err, Empty)
            ELSE QResult(p.chain, Nil,
                         TransitLoop(p.res, order, draw, 1, FloatZero, state))

DoTransit(c, order, draw, state) ==
    IF ~MapHas(c.transitions, state) THEN QResult(c, NotFound, Empty)
    ELSE LET p == DoGetTransitionProbabilities(c, state)
         IN IF p.err # Nil THEN QResult(p.chain, p.err, Empty)
            ELSE QResult(p.chain, Nil,
                         TransitLoop(p.res, order, draw, 1, FloatZero, Empty))

\* ---------------------------------------------------------------- JSON
\* A JSON document is kept as the value it denotes, white space and
\* indentation aside:
\*   [t |-> "null"], [t |-> "string"],
\*   [t |-> "number", neg, digits, frac]  the literal: sign, decimal digits of
\*                                        the integer part, has a fraction,
\*   [t |-> "object", members]            the members in the order written,
\*   [t |-> "malformed"]                  text that is not JSON.
JNull == [t |-> "null"]
JString == [t |-> "string"]
JMalformed == [t |-> "malformed"]
JObject(members) == [t |-> "object", members |-> members]
JMember(k, v) == [key |-> k, val |-> v]

\* The state names in the order encoding/json sorts map keys.
SortedStates == <<"s0", "s1">>

RECURSIVE FormatDigits(_)
FormatDigits(n) == IF n < 10 THEN <<n>> ELSE Append(FormatDigits(n \div 10), n % 10)

\* An int64 is written as a decimal integer literal.
JSONInt(n) ==
    [t |-> "number", neg |-> n < 0,
     digits |-> FormatDigits(IF n < 0 THEN 0 - n ELSE n), frac |-> FALSE]

RECURSIVE ParseDigits(_, _, _)
ParseDigits(digits, i, acc) ==
    IF i > Len(digits) THEN acc ELSE ParseDigits(digits, i + 1, acc * 10 + digits[i])

\* Which maps of a chain are nil: the two maps of the struct, and the inner
\* maps by their key.
Nils(tr, tot, inner) == [transitions |-> tr, totals |-> tot, inner |-> inner]

NoNil == Nils(FALSE, FALSE, {})

\* A map[string]int64 is written as an object, keys sorted; a nil map as null.
JSONWeights(m, isNil) ==
    IF isNil THEN JNull
    ELSE LET keys == SelectSeq(SortedStates, LAMBDA k : k \in DOMAIN m)
         IN JObject([i \in 1 .. Len(keys) |-> JMember(keys[i], JSONInt(m[keys[i]]))])

JSONTransitions(tr, nils) ==
    IF nils.transitions THEN JNull
    ELSE LET keys == SelectSeq(SortedStates, LAMBDA k : k \in DOMAIN tr)
         IN JObject([i \in 1 .. Len(keys) |->
                        JMember(keys[i], JSONWeights(tr[keys[i]], keys[i] \in nils.inner))])

\* Mutant: the exported struct carries the transitions only.
DoToJSON_OmitsTotals(c, nils) ==
    QResult(c, Nil, JObject(<<JMember("Transitions", JSONTransitions(c.transitions, nils))>>))

\* ToJSON: the two fields of chainExport in declaration order.  Marshalling
\* maps of strings and integers cannot fail.
DoToJSON(c, nils) ==
    QResult(c, Nil,
            JObject(<<JMember("Transitions", JSONTransitions(c.transitions, nils)),
                      JMember("Totals", JSONWeights(c.totals, nils.totals))>>))

\* Decoding into an int64: null leaves the zero value, an integer literal is
\* parsed, anything else is a type error.
DecodeInt(v) ==
    IF v.t = "null" THEN [val |-> 0, err |-> FALSE]
    ELSE IF v.t = "number" /\ ~v.frac
    THEN [val |-> IF v.neg THEN 0 - ParseDigits(v.digits, 1, 0)
                  ELSE ParseDigits(v.digits, 1, 0),
          err |-> FALSE]
    ELSE [val |-> 0, err |-> TRUE]

\* Decoding the members of an object into a map[string]int64, in the order
\* written: a later member overwrites an earlier one with the same key.
RECURSIVE DecodeWeightMembers(_, _, _)
DecodeWeightMembers(members, i, acc) ==
    IF i > Len(members) THEN acc
    ELSE LET d == DecodeInt(members[i].val)
         IN DecodeWeightMembers(members, i + 1,
                [map |-> MapSet(acc.map, members[i].key, d.val),
                 err |-> acc.err \/ d.err])

\* Decoding into a map[string]int64: null gives the nil map, an object a map,
\* anything else a type error.
DecodeWeights(v) ==
    IF v.t = "null" THEN [map |-> EmptyMap, isNil |-> TRUE, err |-> FALSE]
    ELSE IF v.t = "object"
    THEN LET d == DecodeWeightMembers(v.members, 1, [map |-> EmptyMap, err |-> FALSE])
         IN [map |-> d.map, isNil |-> FALSE, err |-> d.err]
    ELSE [map |-> EmptyMap, isNil |-> TRUE, err |-> TRUE]

RECURSIVE DecodeTransitionMembers(_, _, _)
DecodeTransitionMembers(members, i, acc) ==
    IF i > Len(members) THEN acc
    ELSE LET d == DecodeWeights(members[i].val)
             k == members[i].key
         IN DecodeTransitionMembers(members, i + 1,
                [map |-> MapSet(acc.map, k, d.map),
                 inner |-> IF d.isNil THEN acc.inner \cup {k} ELSE acc.inner \ {k},
                 err |-> acc.err \/ d.err])

DecodeTransitions(v) ==
    IF v.t = "null" THEN [map |-> EmptyMap, isNil |-> TRUE, inner |-> {}, err |-> FALSE]
    ELSE IF v.t = "object"
    THEN LET d == DecodeTransitionMembers(v.members, 1,
                      [map |-> EmptyMap, inner |-> {}, err |-> FALSE])
         IN [map |-> d.map, isNil |-> FALSE, inner |-> d.inner, err |-> d.err]
    ELSE [map |-> EmptyMap, isNil |-> TRUE, inner |-> {}, err |-> TRUE]

\* The value of the member named key; null when the object has none (the
\* struct field then keeps its zero value, the nil map).  Names other than
\* the two fields are skipped.  The documents of this model repeat no key.
FieldOf(members, key) ==
    IF \E i \in DOMAIN members : members[i].key = key
    THEN members[CHOOSE i \in DOMAIN members : members[i].key = key].val
    ELSE JNull

FromJSONResult(c, nils, e) == [chain |-> c, nils |-> nils, err |-> e]

\* The chain FromJSON returns with an error is nil; it is kept as the empty
\* chain with both maps nil.
NilChain == FromJSONResult(Chain(EmptyMap, EmptyMap), Nils(TRUE, TRUE, {}), ParseError)

\* Mutant: the totals are recomputed from the transitions on load.
DoFromJSON_Recomputes(data) ==
    IF data.t = "malformed" THEN NilChain
    ELSE IF data.t = "null"
    THEN FromJSONResult(Chain(EmptyMap, EmptyMap), Nils(TRUE, TRUE, {}), Nil)
    ELSE IF data.t # "object" THEN NilChain
    ELSE LET tr == DecodeTransitions(FieldOf(data.members, "Transitions"))
             tot == DecodeWeights(FieldOf(data.members, "Totals"))
         IN IF tr.err \/ tot.err THEN NilChain
            ELSE FromJSONResult(Chain(tr.map, [k \in DOMAIN tr.map |-> SumWeights(tr.map[k])]),
                                Nils(tr.isNil, FALSE, tr.inner), Nil)

\* FromJSON: json.Unmarshal into chainExport, then the two maps are taken as
\* they are.
DoFromJSON(data) ==
    IF data.t = "malformed" THEN NilChain
    ELSE IF data.t = "null"
    THEN FromJSONResult(Chain(EmptyMap, EmptyMap), Nils(TRUE, TRUE, {}), Nil)
    ELSE IF data.t # "object" THEN NilChain
    ELSE LET tr == DecodeTransitions(FieldOf(data.members, "Transitions"))
             tot == DecodeWeights(FieldOf(data.members, "Totals"))
         IN IF tr.err \/ tot.err THEN NilChain
            ELSE FromJSONResult(Chain(tr.map, tot.map),
                                Nils(tr.isNil, tot.isNil, tr.inner), Nil)

\* ---------------------------------------------------------------- state
Call(op, a, b, w, e, pre, res) ==
    [op |-> op, s1 |-> a, s2 |-> b, weight |-> w, err |-> e, pre |-> pre, res |-> res]

cur == Chain(transitions, totals)

\* No call turns a map nil or a nil map into a map: a write into a nil map
\* panics.  An inner map leaves with its key; a key that is added gets a map.
Commit(r) ==
    /\ transitions' = r.chain.transitions
    /\ totals' = r.chain.totals
    /\ nilmaps' = [nilmaps EXCEPT !.inner = @ \cap DOMAIN r.chain.transitions]
    /\ UNCHANGED calls

\* ---- writes into nil maps: where a call panics, and the chain at that point
NoNilWrite(c) == [panic |-> FALSE, chain |-> c]
NilWrite(c) == [panic |-> TRUE, chain |-> c]

\* chain.go:36 writes chain.transitions, chain.go:37 chain.totals.
NilWriteAddState(c, nils, state) ==
    IF MapHas(c.transitions, state) THEN NoNilWrite(c)
    ELSE IF nils.transitions THEN NilWrite(c)
    ELSE IF nils.totals
    THEN NilWrite(Chain(MapSet(c.transitions, state, EmptyMap), c.totals))
    ELSE NoNilWrite(c)

\* chain.go:159 writes the inner map of outgoing, chain.go:160 chain.totals.
NilWriteAddTransition(c, nils, outgoing, incoming, weight) ==
    LET r == DoAddTransition(c, outgoing, incoming, weight)
    IN IF r.err # Nil THEN NoNilWrite(c)
       ELSE IF outgoing \in nils.inner THEN NilWrite(c)
       ELSE IF nils.totals THEN NilWrite(Chain(r.chain.transitions, c.totals))
       ELSE NoNilWrite(c)

\* chain.go:228 writes chain.totals first.
NilWriteUpdateTransition(c, nils, outgoing, incoming, weight) ==
    IF DoUpdateTransition(c, outgoing, incoming, weight).err # Nil THEN NoNilWrite(c)
    ELSE IF nils.totals THEN NilWrite(c)
    ELSE NoNilWrite(c)

\* chain.go:250 writes chain.totals first.
NilWriteRemoveTransition(c, nils, outgoing, incoming) ==
    IF DoRemoveTransition(c, outgoing, incoming).err # Nil THEN NoNilWrite(c)
    ELSE IF nils.totals THEN NilWrite(c)
    ELSE NoNilWrite(c)

\* The first RemoveTransition(key, state) of the loop that finds an edge
\* writes chain.totals; delete on a nil map does nothing.
NilWriteRemoveState(c, nils, state) ==
    IF ~MapHas(c.transitions, state) THEN NoNilWrite(c)
    ELSE IF nils.totals /\ \E key \in DOMAIN c.transitions : EdgeHas(c.transitions, key, state)
    THEN NilWrite(c)
    ELSE NoNilWrite(c)

\* The outcome of a call: the panic when it writes into a nil map, else r.
Guarded(w, r) == IF w.panic THEN Result(w.chain, Panic) ELSE r

\* The goroutines that may call into one chain at the same time.
Goroutines == {"g1", "g2"}

\* A goroutine's call: the method and its arguments, the statement it is at
\* (0: no call begun), its locals, the error it returned, and whether it
\* began while another call was under way.
IdleCall ==
    [op |-> None, outgoing |-> None, incoming |-> None, weight |-> 0,
     at |-> 0, tmp |-> 0, oldWeight |-> 0, err |-> Nil, raced |-> FALSE]

Init ==
    /\ transitions = CreateNew.transitions
    /\ totals = CreateNew.totals
    /\ nilmaps = NoNil
    /\ last = Call("CreateNew", None, None, 0, Nil, CreateNew, None)
    /\ calls = [g \in Goroutines |-> IdleCall]

AddState(state) ==
    LET r == Guarded(NilWriteAddState(cur, nilmaps, state), DoAddState(cur, state))
    IN /\ Commit(r)
       /\ last' = Call("AddState", state, None, 0, r.err, cur, None)

AddTransition(outgoing, incoming, weight) ==
    LET r == Guarded(NilWriteAddTransition(cur, nilmaps, outgoing, incoming, weight),
                     DoAddTransition(cur, outgoing, incoming, weight))
    IN /\ Commit(r)
       /\ last' = Call("AddTransition", outgoing, incoming, weight, r.err, cur, None)

UpdateTransition(outgoing, incoming, weight) ==
    LET r == Guarded(NilWriteUpdateTransition(cur, nilmaps, outgoing, incoming, weight),
                     DoUpdateTransition(cur, outgoing, incoming, weight))
    IN /\ Commit(r)
       /\ last' = Call("UpdateTransition", outgoing, incoming, weight, r.err, cur, None)

RemoveTransition(outgoing, incoming) ==
    LET r == Guarded(NilWriteRemoveTransition(cur, nilmaps, outgoing, incoming),
                     DoRemoveTransition(cur, outgoing, incoming))
    IN /\ Commit(r)
       /\ last' = Call("RemoveTransition", outgoing, incoming, 0, r.err, cur, None)

RemoveState(state) ==
    \E order \in Orders(DOMAIN transitions) :
        LET r == Guarded(NilWriteRemoveState(cur, nilmaps, state),
                         DoRemoveState(cur, order, state))
        IN /\ Commit(r)
           /\ last' = Call("RemoveState", state, None, 0, r.err, cur, None)

HasState(state) ==
    LET r == DoHasState(cur, state)
    IN /\ Commit(r)
       /\ last' = Call("HasState", state, None, 0, r.err, cur, r.res)

GetAllStates ==
    \E order \in Orders(DOMAIN totals) :
        LET r == DoGetAllStates(cur, order)
        IN /\ Commit(r)
           /\ last' = Call("GetAllStates", None, None, 0, r.err, cur, r.res)

HasTransition(outgoing, incoming) ==
    LET r == DoHasTransition(cur, outgoing, incoming)
    IN /\ Commit(r)
       /\ last' = Call("HasTransition", outgoing, incoming, 0, r.err, cur, r.res)

GetTransitionWeight(outgoing, incoming) ==
    LET r == DoGetTransitionWeight(cur, outgoing, incoming)
    IN /\ Commit(r)
       /\ last' = Call("GetTransitionWeight", outgoing, incoming, 0, r.err, cur, r.res)

GetTransitionWeights(state) ==
    LET r == DoGetTransitionWeights(cur, state)
    IN /\ Commit(r)
       /\ last' = Call("GetTransitionWeights", state, None, 0, r.err, cur, r.res)

GetTransitionProbability(outgoing, incoming) ==
    LET r == DoGetTransitionProbability(cur, outgoing, incoming)
    IN /\ Commit(r)
       /\ last' = Call("GetTransitionProbability", outgoing, incoming, 0, r.err, cur, r.res)

GetTransitionProbabilities(state) ==
    LET r == DoGetTransitionProbabilities(cur, state)
    IN /\ Commit(r)
       /\ last' = Call("GetTransitionProbabilities", state, None, 0, r.err, cur, r.res)

\* The keys Transit ranges over: those of the probabilities map, which are the
\* keys of transitions[state] (none when the state is missing).
TransitKeys(state) == IF MapHas(transitions, state) THEN DOMAIN transitions[state] ELSE {}

Transit(state) ==
    \E order \in Orders(TransitKeys(state)) :
        \E draw \in [1 .. Len(order) -> Draws] :
            LET r == DoTransit(cur, order, draw, state)
            IN /\ Commit(r)
               /\ last' = Call("Transit", state, None, 0, r.err, cur, r.res)

ToJSON ==
    LET r == DoToJSON(cur, nilmaps)
    IN /\ Commit(r)
       /\ last' = Call("ToJSON", None, None, 0, r.err, cur, r.res)

Next ==
    \/ \E s \in States : AddState(s)
    \/ \E s \in States : RemoveState(s)
    \/ \E o \in States, i \in States, w \in Weights : AddTransition(o, i, w)
    \/ \E o \in States, i \in States, w \in Weights : UpdateTransition(o, i, w)
    \/ \E o \in States, i \in States : RemoveTransition(o, i)
    \/ \E s \in States : HasState(s)
    \/ GetAllStates
    \/ \E o \in States, i \in States : HasTransition(o, i)
    \/ \E o \in States, i \in States : GetTransitionWeight(o, i)
    \/ \E s \in States : GetTransitionWeights(s)
    \/ \E o \in States, i \in States : GetTransitionProbability(o, i)
    \/ \E s \in States : GetTransitionProbabilities(s)
    \/ \E s \in States : Transit(s)
    \/ ToJSON

Spec == Init /\ [][Next]_vars

\* ---------------------------------------------------------------- FromJSON
\* The documents handed to FromJSON: text that is not JSON, non-objects, and
\* objects with both, one or none of the two fields, whose values are null,
\* of the wrong type, or maps over the key "s0".
FracNumber == [t |-> "number", neg |-> FALSE, digits |-> <<1>>, frac |-> TRUE]

InnerDocs ==
    {JNull, JObject(<<>>)}
        \cup {JObject(<<JMember(k, JSONInt(w))>>) : k \in States, w \in Weights}

TransitionsDocs ==
    {JNull, JString, JObject(<<>>)} \cup {JObject(<<JMember("s0", d)>>) : d \in InnerDocs}

TotalsDocs ==
    {JNull, JString, JObject(<<>>), JObject(<<JMember("s0", FracNumber)>>)}
        \cup {JObject(<<JMember("s0", JSONInt(t))>>) : t \in 0 .. MaxWeight}

Payloads ==
    {JMalformed, JNull, JString, JObject(<<>>)}
        \cup {JObject(<<JMember("Transitions", a), JMember("Totals", b)>>) :
                 a \in TransitionsDocs, b \in TotalsDocs}
        \cup {JObject(<<JMember("Transitions", a)>>) : a \in TransitionsDocs}
        \cup {JObject(<<JMember("Totals", b)>>) : b \in TotalsDocs}

\* FromJSON has no receiver: the chain it returns becomes the chain the later
\* calls are made on; when it fails the caller is left with the chain it had.
\* last.s1 is the document, last.pre the chain the caller holds afterwards.
FromJSON(data) ==
    LET r == DoFromJSON(data)
        c == IF r.err = Nil THEN r.chain ELSE cur
    IN /\ transitions' = c.transitions
       /\ totals' = c.totals
       /\ nilmaps' = IF r.err = Nil THEN r.nils ELSE nilmaps
       /\ UNCHANGED calls
       /\ last' = Call("FromJSON", data, None, 0, r.err, c, None)

\* The names the calls on a restored chain are made with.
LoadNames == {"s0"}

NextJSON ==
    \/ \E data \in Payloads : FromJSON(data)
    \/ \E s \in LoadNames : AddState(s)
    \/ \E s \in LoadNames : RemoveState(s)
    \/ \E o \in LoadNames, i \in LoadNames, w \in Weights : AddTransition(o, i, w)
    \/ \E o \in LoadNames, i \in LoadNames, w \in Weights : UpdateTransition(o, i, w)
    \/ \E o \in LoadNames, i \in LoadNames : RemoveTransition(o, i)
    \/ \E s \in LoadNames : HasState(s)
    \/ GetAllStates
    \/ \E o \in LoadNames, i \in LoadNames : HasTransition(o, i)
    \/ \E o \in LoadNames, i \in LoadNames : GetTransitionWeight(o, i)
    \/ \E s \in LoadNames : GetTransitionWeights(s)
    \/ \E o \in LoadNames, i \in LoadNames : GetTransitionProbability(o, i)
    \/ \E s \in LoadNames : GetTransitionProbabilities(s)
    \/ \E s \in LoadNames : Transit(s)
    \/ ToJSON

SpecJSON == Init /\ [][NextJSON]_vars

\* ---------------------------------------------------------------- goroutines
\* Two goroutines call AddTransition or UpdateTransition on one chain with no
\* lock.  A call is a sequence of steps, one per read or write of the shared
\* maps, and the steps of the two calls interleave:
\*   "check"  the validations at the head of the method
\*   "old"    oldWeight := chain.transitions[outgoing][incoming]
\*   "load"   the read of chain.totals[outgoing] in a += or -=
\*   "sub"    the write of chain.totals[outgoing] in -= oldWeight
\*   "edge"   chain.transitions[outgoing][incoming] = weight
\*   "add"    the write of chain.totals[outgoing] in += weight
Program(op) ==
    IF op = "AddTransition" THEN <<"check", "edge", "load", "add">>
    ELSE <<"check", "old", "load", "sub", "edge", "load", "add">>

RaceOps == {"AddTransition", "UpdateTransition"}

\* The process has ended on the runtime's fatal error: no goroutine runs on.
Crashed == \E g \in Goroutines : calls[g].err = Panic

Active(call) == ~Crashed /\ call.at >= 1 /\ call.at <= Len(Program(call.op))

Finished(call) == call.op # None /\ call.at > Len(Program(call.op))

Instr(call) == IF Active(call) THEN Program(call.op)[call.at] ELSE None

\* The error the validations of the call return on chain c.
ExecCheck(c, call) ==
    IF call.op = "AddTransition"
    THEN DoAddTransition(c, call.outgoing, call.incoming, call.weight).err
    ELSE DoUpdateTransition(c, call.outgoing, call.incoming, call.weight).err

ExecEdge(c, call) ==
    Chain(MapSet(c.transitions, call.outgoing,
                 MapSet(c.transitions[call.outgoing], call.incoming, call.weight)),
          c.totals)

\* Mutant: the += stores the weight alone, dropping the value it read.
ExecAdd_DropsRead(c, call) ==
    Chain(c.transitions, MapSet(c.totals, call.outgoing, call.weight))

ExecAdd(c, call) ==
    Chain(c.transitions, MapSet(c.totals, call.outgoing, call.tmp + call.weight))

ExecSub(c, call) ==
    Chain(c.transitions, MapSet(c.totals, call.outgoing, call.tmp - call.oldWeight))

InitRace ==
    /\ \E c \in {DoAddState(DoAddState(CreateNew, "s0").chain, "s1").chain,
                  DoAddTransition(DoAddState(DoAddState(CreateNew, "s0").chain,
                                             "s1").chain, "s0", "s0", 1).chain} :
           /\ transitions = c.transitions
           /\ totals = c.totals
           /\ last = Call("AddState", "s1", None, 0, Nil, c, None)
    /\ nilmaps = NoNil
    /\ calls = [g \in Goroutines |-> IdleCall]

Advance(g, call) ==
    calls' = [calls EXCEPT ![g] = [call EXCEPT !.at = @ + 1]]

RaceBegin(g, op, outgoing, incoming, weight) ==
    /\ ~Crashed
    /\ calls[g].at = 0
    /\ calls' = [calls EXCEPT ![g] =
                    [IdleCall EXCEPT !.op = op, !.outgoing = outgoing,
                                     !.incoming = incoming, !.weight = weight,
                                     !.at = 1,
                                     !.raced = \E h \in Goroutines \ {g} : Active(calls[h])]]
    /\ UNCHANGED <<transitions, totals, nilmaps, last>>

RaceCheck(g) ==
    /\ Instr(calls[g]) = "check"
    /\ LET e == ExecCheck(cur, calls[g])
       IN calls' = [calls EXCEPT ![g] =
                       IF e = Nil THEN [calls[g] EXCEPT !.at = @ + 1]
                       ELSE [calls[g] EXCEPT !.at = Len(Program(calls[g].op)) + 1,
                                             !.err = e]]
    /\ UNCHANGED <<transitions, totals, nilmaps, last>>

RaceReadOld(g) ==
    /\ Instr(calls[g]) = "old"
    /\ Advance(g, [calls[g] EXCEPT
                      !.oldWeight = cur.transitions[calls[g].outgoing][calls[g].incoming]])
    /\ UNCHANGED <<transitions, totals, nilmaps, last>>

RaceLoadTotal(g) ==
    /\ Instr(calls[g]) = "load"
    /\ Advance(g, [calls[g] EXCEPT !.tmp = MapGet(totals, calls[g].outgoing)])
    /\ UNCHANGED <<transitions, totals, nilmaps, last>>

RaceWrite(g, c) ==
    /\ transitions' = c.transitions
    /\ totals' = c.totals
    /\ Advance(g, calls[g])
    /\ UNCHANGED <<nilmaps, last>>

RaceStoreEdge(g) == Instr(calls[g]) = "edge" /\ RaceWrite(g, ExecEdge(cur, calls[g]))

RaceSubTotal(g) == Instr(calls[g]) = "sub" /\ RaceWrite(g, ExecSub(cur, calls[g]))

RaceAddTotal(g) == Instr(calls[g]) = "add" /\ RaceWrite(g, ExecAdd(cur, calls[g]))

\* A map write made while another call is under way may be caught by the
\* runtime ("fatal error: concurrent map writes"): the process ends.
RaceFatal(g) ==
    /\ Instr(calls[g]) \in {"edge", "sub", "add"}
    /\ \E h \in Goroutines \ {g} : Active(calls[h])
    /\ calls' = [h \in Goroutines |-> [calls[h] EXCEPT !.err = Panic]]
    /\ UNCHANGED <<transitions, totals, nilmaps, last>>

NextRace ==
    \/ \E g \in Goroutines, op \in RaceOps, o \in States, i \in States, w \in Weights :
           RaceBegin(g, op, o, i, w)
    \/ \E g \in Goroutines : RaceCheck(g)
    \/ \E g \in Goroutines : RaceReadOld(g)
    \/ \E g \in Goroutines : RaceLoadTotal(g)
    \/ \E g \in Goroutines : RaceStoreEdge(g)
    \/ \E g \in Goroutines : RaceSubTotal(g)
    \/ \E g \in Goroutines : RaceAddTotal(g)
    \/ \E g \in Goroutines : RaceFatal(g)

SpecRace == InitRace /\ [][NextRace]_vars

\* ---------------------------------------------------------------- claims
Range(q) == {q[i] : i \in DOMAIN q}

Succeeded(op) == last.op = op /\ last.err = Nil

\* The outgoing weight from o to i in chain c, when the edge is stored.
WeightOf(c, o, i) == c.transitions[o][i]

\* C1: for every existing state s, totals[s] equals the sum of the weights
\* stored in transitions[s], after any sequence of calls.
C1_TotalsEqualSum ==
    \A s \in DOMAIN transitions :
        /\ s \in DOMAIN totals
        /\ totals[s] = SumWeights(transitions[s])

\* C1 witness: UpdateTransition just changed the weight of one of the two
\* outgoing edges of a state.
C1_Witness ==
    /\ Succeeded("UpdateTransition")
    /\ Cardinality(DOMAIN transitions[last.s1]) = 2
    /\ last.weight # WeightOf(last.pre, last.s1, last.s2)

\* C2: transitions and totals have the same key set, so HasState(s) holds
\* exactly for the names GetAllStates returns.
C2_SameKeys ==
    /\ DOMAIN transitions = DOMAIN totals
    /\ last.op = "GetAllStates" =>
           \A s \in States : DoHasState(cur, s).res <=> s \in Range(last.res)

\* C2 witness: GetAllStates answered on a chain from which a state was removed
\* earlier, one state being left.
C2_Witness ==
    /\ last.op = "GetAllStates"
    /\ Len(last.res) = 1
    /\ \E s \in States : ~DoHasState(cur, s).res

\* C3: both endpoints of every stored edge exist, and AddTransition with a
\* missing endpoint is rejected and mutates nothing.
C3_NoDanglingEdge ==
    /\ \A a \in DOMAIN transitions : \A b \in DOMAIN transitions[a] :
           b \in DOMAIN transitions
    /\ (/\ last.op = "AddTransition"
        /\ \/ last.s1 \notin DOMAIN last.pre.transitions
           \/ last.s2 \notin DOMAIN last.pre.transitions)
       => (last.err = NotFound /\ cur = last.pre)

\* C3 witness: RemoveState succeeded on a state that had a self-loop and an
\* incoming edge from a state that remains.
C3_Witness ==
    /\ Succeeded("RemoveState")
    /\ EdgeHas(last.pre.transitions, last.s1, last.s1)
    /\ \E t \in DOMAIN transitions : EdgeHas(last.pre.transitions, t, last.s1)

\* C4: every stored transition weight is strictly positive.
C4_WeightsPositive ==
    \A a \in DOMAIN transitions : \A b \in DOMAIN transitions[a] :
        transitions[a][b] > 0

\* C5: a call that returns an error leaves transitions and totals as they
\* were before the call.
C5_ErrorLeavesChain ==
    last.err # Nil => cur = last.pre

\* C5 witness: AddTransition failed on its weight while the chain already
\* held an edge.
C5_Witness ==
    /\ last.op = "AddTransition"
    /\ last.err = InvalidWeight
    /\ \E a \in DOMAIN transitions : DOMAIN transitions[a] # {}

\* C6 (as claimed): AddTransition(a, b, w) with w <= 0 between two states of
\* the chain fails with InvalidWeight and changes nothing.
C6_Original ==
    (/\ last.op = "AddTransition"
     /\ last.weight <= 0
     /\ last.s1 \in DOMAIN last.pre.transitions
     /\ last.s2 \in DOMAIN last.pre.transitions)
    => (last.err = InvalidWeight /\ cur = last.pre)

\* C6 (amended): AddTransition(a, b, w) with w <= 0 always fails and changes
\* nothing; the error is InvalidWeight when a and b exist and there is no
\* edge a->b, AlreadyExists when the edge is already there, and NotFound when
\* an endpoint is missing.
C6_InvalidWeight ==
    (last.op = "AddTransition" /\ last.weight <= 0)
    => /\ cur = last.pre
       /\ last.err =
              IF \/ last.s1 \notin DOMAIN last.pre.transitions
                 \/ last.s2 \notin DOMAIN last.pre.transitions
              THEN NotFound
              ELSE IF EdgeHas(last.pre.transitions, last.s1, last.s2)
              THEN AlreadyExists
              ELSE InvalidWeight

\* C6 witness: a zero weight was rejected for a pair of existing states that
\* has no edge, in a chain that holds other edges.
C6_Witness ==
    /\ last.op = "AddTransition"
    /\ last.weight = 0
    /\ last.err = InvalidWeight
    /\ last.s1 # last.s2
    /\ DOMAIN transitions[last.s1] # {}

\* C7: after a successful RemoveState(s), HasState(s) is false, s is not in
\* GetAllStates, and no remaining state's GetTransitionWeights has s as a
\* key; RemoveState of a missing state fails with NotFound.
C7_RemoveState ==
    last.op = "RemoveState" =>
        IF last.s1 \in DOMAIN last.pre.transitions
        THEN /\ last.err = Nil
             /\ ~DoHasState(cur, last.s1).res
             /\ \A order \in Orders(DOMAIN totals) :
                    last.s1 \notin Range(DoGetAllStates(cur, order).res)
             /\ \A t \in DOMAIN transitions :
                    /\ DoGetTransitionWeights(cur, t).err = Nil
                    /\ last.s1 \notin DOMAIN DoGetTransitionWeights(cur, t).res
        ELSE last.err = NotFound

\* C7 witness: the removed state had an edge from a state that remains.
C7_Witness ==
    /\ Succeeded("RemoveState")
    /\ \E t \in DOMAIN transitions :
           /\ t # last.s1
           /\ EdgeHas(last.pre.transitions, t, last.s1)
           /\ DOMAIN transitions[t] # {}

\* C8: UpdateTransition fails with NotFound when an endpoint or the edge is
\* missing; otherwise it succeeds for every weight, stores it, moves
\* totals[from] by (weight - oldWeight) and leaves everything else alone.
C8_UpdateTransition ==
    last.op = "UpdateTransition" =>
        LET pre == last.pre
            o == last.s1
            i == last.s2
        IN IF EdgeHas(pre.transitions, o, i) /\ i \in DOMAIN pre.transitions
           THEN /\ last.err = Nil
                /\ DOMAIN transitions = DOMAIN pre.transitions
                /\ DOMAIN totals = DOMAIN pre.totals
                /\ \A a \in DOMAIN transitions :
                       DOMAIN transitions[a] = DOMAIN pre.transitions[a]
                /\ transitions[o][i] = last.weight
                /\ totals[o] = pre.totals[o] + (last.weight - WeightOf(pre, o, i))
                /\ \A a \in DOMAIN transitions : \A b \in DOMAIN transitions[a] :
                       <<a, b>> # <<o, i>> => transitions[a][b] = pre.transitions[a][b]
                /\ \A a \in DOMAIN totals : a # o => totals[a] = pre.totals[a]
           ELSE last.err = NotFound /\ cur = pre

\* C8 witness: a non-positive weight was stored on an edge whose source has
\* another outgoing edge.
C8_Witness ==
    /\ Succeeded("UpdateTransition")
    /\ last.weight <= 0
    /\ WeightOf(last.pre, last.s1, last.s2) > 0
    /\ Cardinality(DOMAIN transitions[last.s1]) = 2

\* C9: whenever GetTransitionProbability(from, to) succeeds, totals[from] is
\* nonzero and 0 < weight(from, to) <= totals[from].
C9_ProbabilityInUnitInterval ==
    Succeeded("GetTransitionProbability") =>
        /\ last.res.den # 0
        /\ 0 < last.res.num
        /\ last.res.num <= last.res.den

\* C10: for every state with an outgoing edge, totals[s] is nonzero and
\* equals the sum of the weights in transitions[s].
C10_ProbabilitiesSumToOne ==
    \A s \in DOMAIN transitions :
        DOMAIN transitions[s] # {} =>
            /\ MapGet(totals, s) # 0
            /\ SumWeights(transitions[s]) = MapGet(totals, s)

\* C11: Transit(state) fails with NotFound exactly when the state does not
\* exist; on an existing state without outgoing edges it returns the empty
\* string and no error; a non-empty result is the end of an edge from state.
C11_Transit ==
    last.op = "Transit" =>
        IF last.s1 \notin DOMAIN last.pre.transitions
        THEN last.err = NotFound
        ELSE /\ last.err = Nil
             /\ DOMAIN last.pre.transitions[last.s1] = {} => last.res = Empty
             /\ last.res # Empty => EdgeHas(last.pre.transitions, last.s1, last.res)

\* C11 witness: Transit chose one of the two successors of a state.
C11_Witness ==
    /\ Succeeded("Transit")
    /\ last.res # Empty
    /\ Cardinality(DOMAIN transitions[last.s1]) = 2

\* C17: Transit on a state with an outgoing edge, in a chain whose weights are
\* all positive (no UpdateTransition needed to build it), returns a non-empty
\* successor whatever the random draws are.
C17_TransitReturnsSuccessor ==
    (/\ Succeeded("Transit")
     /\ C4_WeightsPositive
     /\ C1_TotalsEqualSum
     /\ DOMAIN transitions[last.s1] # {})
    => last.res # Empty

\* C18: a successful RemoveState(s) removes s and the edges into s, lowers
\* each remaining total by the weight of the removed edge, and changes
\* nothing else.
C18_RemoveStateFrame ==
    Succeeded("RemoveState") =>
        LET pre == last.pre
            s == last.s1
        IN /\ DOMAIN transitions = DOMAIN pre.transitions \ {s}
           /\ DOMAIN totals = DOMAIN pre.totals \ {s}
           /\ \A t \in DOMAIN transitions :
                  /\ DOMAIN transitions[t] = DOMAIN pre.transitions[t] \ {s}
                  /\ \A u \in DOMAIN transitions[t] :
                         transitions[t][u] = pre.transitions[t][u]
                  /\ totals[t] = pre.totals[t]
                                   - (IF EdgeHas(pre.transitions, t, s)
                                      THEN WeightOf(pre, t, s) ELSE 0)

\* C18 witness: the remaining state had an edge to the removed state and
\* keeps its self-loop.
C18_Witness ==
    /\ Succeeded("RemoveState")
    /\ \E t \in DOMAIN transitions :
           /\ EdgeHas(last.pre.transitions, t, last.s1)
           /\ EdgeHas(transitions, t, t)

\* C19: AddTransition(a, b, w) with a, b existing, no edge a->b and w > 0
\* succeeds, stores w, raises totals[a] by w and changes nothing else; a
\* RemoveTransition(a, b) right after gives back the chain as it was; and
\* AddTransition on an existing edge fails with AlreadyExists, no mutation.
C19_AddThenRemove ==
    last.op = "AddTransition" =>
        LET pre == last.pre
            a == last.s1
            b == last.s2
        IN /\ (/\ a \in DOMAIN pre.transitions
               /\ b \in DOMAIN pre.transitions
               /\ ~EdgeHas(pre.transitions, a, b)
               /\ last.weight > 0)
              => /\ last.err = Nil
                 /\ DOMAIN transitions = DOMAIN pre.transitions
                 /\ DOMAIN totals = DOMAIN pre.totals
                 /\ DOMAIN transitions[a] = DOMAIN pre.transitions[a] \cup {b}
                 /\ transitions[a][b] = last.weight
                 /\ totals[a] = pre.totals[a] + last.weight
                 /\ \A t \in DOMAIN transitions : \A u \in DOMAIN transitions[t] :
                        <<t, u>> # <<a, b>> => transitions[t][u] = pre.transitions[t][u]
                 /\ \A t \in DOMAIN transitions : t # a =>
                        /\ DOMAIN transitions[t] = DOMAIN pre.transitions[t]
                        /\ totals[t] = pre.totals[t]
                 /\ DoRemoveTransition(cur, a, b) = Result(pre, Nil)
           /\ EdgeHas(pre.transitions, a, b)
              => (last.err = AlreadyExists /\ cur = pre)

\* C19 witness: an edge was added to a state that already had another one.
C19_Witness ==
    /\ Succeeded("AddTransition")
    /\ Cardinality(DOMAIN transitions[last.s1]) = 2
    /\ last.s1 # last.s2

\* C12: ToJSON succeeds and leaves the chain alone, and FromJSON of its
\* output succeeds and gives a chain with the same transitions and totals.
C12_RoundTrip ==
    last.op = "ToJSON" =>
        /\ last.err = Nil
        /\ cur = last.pre
        /\ DoFromJSON(last.res).err = Nil
        /\ DoFromJSON(last.res).chain = cur

\* C12 witness: the chain written has a negative weight, a second edge and a
\* state without edges.
C12_Witness ==
    /\ last.op = "ToJSON"
    /\ \E a \in DOMAIN transitions :
           /\ Cardinality(DOMAIN transitions[a]) = 2
           /\ \E b \in DOMAIN transitions[a] : transitions[a][b] < 0
    /\ \E a \in DOMAIN transitions : DOMAIN transitions[a] = {}

HasField(data, key) ==
    data.t = "object" /\ \E i \in DOMAIN data.members : data.members[i].key = key

\* C13: FromJSON fails with a ParseError when the input is malformed or lacks
\* the Transitions or the Totals field.
C13_ParseErrorOnMissingField ==
    (/\ last.op = "FromJSON"
     /\ \/ last.s1.t = "malformed"
        \/ /\ last.s1.t = "object"
           /\ ~HasField(last.s1, "Transitions") \/ ~HasField(last.s1, "Totals"))
    => last.err = ParseError

\* C14: no call panics, on a chain from CreateNew or from FromJSON.
C14_NoPanic == last.err # Panic

\* A document with the two fields, maps of maps of integers and a map of
\* integers.
IsInteger(v) == v.t = "number" /\ ~v.frac

IntegerOf(v) == IF v.neg THEN 0 - ParseDigits(v.digits, 1, 0) ELSE ParseDigits(v.digits, 1, 0)

IsWeightsDoc(v) ==
    v.t = "object" /\ \A i \in DOMAIN v.members : IsInteger(v.members[i].val)

WellFormed(data) ==
    /\ HasField(data, "Transitions")
    /\ HasField(data, "Totals")
    /\ LET tr == FieldOf(data.members, "Transitions")
       IN /\ tr.t = "object"
          /\ \A i \in DOMAIN tr.members : IsWeightsDoc(tr.members[i].val)
    /\ IsWeightsDoc(FieldOf(data.members, "Totals"))

\* C15: FromJSON of a well-formed two-field document succeeds and the chain
\* holds exactly the document's contents, consistent or not.
C15_FromJSONKeepsPayload ==
    (last.op = "FromJSON" /\ WellFormed(last.s1)) =>
        LET tr == FieldOf(last.s1.members, "Transitions").members
            tot == FieldOf(last.s1.members, "Totals").members
        IN /\ last.err = Nil
           /\ nilmaps = NoNil
           /\ DOMAIN transitions = {tr[i].key : i \in DOMAIN tr}
           /\ \A i \in DOMAIN tr :
                  LET inner == tr[i].val.members
                  IN /\ DOMAIN transitions[tr[i].key] = {inner[j].key : j \in DOMAIN inner}
                     /\ \A j \in DOMAIN inner :
                            transitions[tr[i].key][inner[j].key] = IntegerOf(inner[j].val)
           /\ DOMAIN totals = {tot[i].key : i \in DOMAIN tot}
           /\ \A i \in DOMAIN tot : totals[tot[i].key] = IntegerOf(tot[i].val)

\* C15 witness: FromJSON returned a chain whose total disagrees with its
\* weights, with a non-positive weight on an edge to a state that is no key.
C15_Witness ==
    /\ Succeeded("FromJSON")
    /\ WellFormed(last.s1)
    /\ \E a \in DOMAIN transitions :
           /\ a \in DOMAIN totals
           /\ totals[a] # SumWeights(transitions[a])
           /\ \E b \in DOMAIN transitions[a] :
                  transitions[a][b] <= 0 /\ b \notin DOMAIN transitions

ReadOnlyOps ==
    {"HasState", "HasTransition", "GetAllStates", "GetTransitionWeight",
     "GetTransitionWeights", "GetTransitionProbability",
     "GetTransitionProbabilities", "Transit", "ToJSON"}

\* C20: a read-only call leaves transitions and totals unchanged whether it
\* succeeds or fails, so the same call on the chain afterwards gives the
\* same answer (for the calls whose answer depends on the chain only).
C20_ReadOnly ==
    last.op \in ReadOnlyOps =>
        /\ cur = last.pre
        /\ last.op = "HasState" => last.res = DoHasState(cur, last.s1).res
        /\ last.op = "HasTransition" =>
               last.res = DoHasTransition(cur, last.s1, last.s2).res
        /\ last.op = "GetTransitionWeight" =>
               /\ last.err = DoGetTransitionWeight(cur, last.s1, last.s2).err
               /\ last.res = DoGetTransitionWeight(cur, last.s1, last.s2).res
        /\ last.op = "GetTransitionWeights" =>
               /\ last.err = DoGetTransitionWeights(cur, last.s1).err
               /\ last.err = Nil => last.res = DoGetTransitionWeights(cur, last.s1).res
        /\ last.op = "GetTransitionProbability" =>
               /\ last.err = DoGetTransitionProbability(cur, last.s1, last.s2).err
               /\ last.res = DoGetTransitionProbability(cur, last.s1, last.s2).res
        /\ last.op = "GetTransitionProbabilities" =>
               /\ last.err = DoGetTransitionProbabilities(cur, last.s1).err
               /\ last.err = Nil =>
                      last.res = DoGetTransitionProbabilities(cur, last.s1).res
        /\ last.op = "ToJSON" => last.res = DoToJSON(cur, nilmaps).res

\* C20 witness: a lookup failed on a chain that holds an edge.
C20_Witness ==
    /\ last.op = "GetTransitionWeights"
    /\ last.err = NotFound
    /\ \E a \in DOMAIN transitions : DOMAIN transitions[a] # {}

Quiet == \A g \in Goroutines : ~Active(calls[g])

\* C16: when the steps of two unsynchronised mutating calls interleave, a
\* state where totals[s] differs from the sum of the weights of s can be
\* reached (the witness); when the calls run one after the other, totals[s]
\* equals the sum once they have returned.
C16_SerialCallsKeepTotals ==
    (/\ Quiet
     /\ ~Crashed
     /\ \A g \in Goroutines : ~calls[g].raced)
    => C1_TotalsEqualSum

\* C16 witness: two calls on the same outgoing state have both returned nil,
\* their steps interleaved, and a total differs from the sum of the weights.
C16_Witness ==
    /\ \A g \in Goroutines : Finished(calls[g]) /\ calls[g].err = Nil
    /\ \E g \in Goroutines : calls[g].raced
    /\ \A g, h \in Goroutines : calls[g].outgoing = calls[h].outgoing
    /\ ~C1_TotalsEqualSum

====
